---- MODULE Spec2Model ----
(***************************************************************************)
(* Model of the Zettelkasten AI plugin (src/obsidian_zettelkasten_plugin.ts *)
(* and src/additional_modals.ts).  Texts are TLA+ strings; the string      *)
(* functions of the code (split, trim, toLowerCase, match, includes) are   *)
(* operators that compute what the JavaScript computes.                    *)
(***************************************************************************)
EXTENDS Integers, Sequences, FiniteSets, TLC

VARIABLES
    settings,     \* ZettelkastenSettings: apiKey, connectionThreshold (tenths), folders
    vault,        \* path -> content, the documents of the vault
    activeFile,   \* workspace.getActiveFile(): a path or NoFile
    clock,        \* seconds elapsed: index of what new Date() returns
    requests,     \* number of fetch() calls made so far
    folders,      \* the folders of the vault
    files,        \* vault.getFiles(): the paths in the order the vault lists them
    notice,       \* text of the last Notice shown
    raised,       \* message of the error the last handler threw, or NoError
    op,           \* the handler that ran last
    created,      \* path the last handler created with vault.create, or NoFile
    promote,      \* the ProcessingModal: state, file, content
    connections,  \* the ConnectionsModal's list
    userText,     \* what the user types into the InputModal
    simA, simB, simOut,    \* calculateSimilarity: arguments and result
    llmData, llmOut,       \* callLLM: the response body and the outcome
    timer,        \* the interval onload registered: registered, period (ms)
    topics,       \* the last Writing-Topics run and the WritingTopicsModal
    addLink,      \* the Add Link handler between its read and its write
    review        \* the DailyReviewModal and its suggestions

vars == <<settings, vault, folders, files, activeFile, clock, requests, notice, raised, op,
          created, promote, connections, userText, simA, simB, simOut,
          llmData, llmOut, timer, topics, addLink, review>>

(***************************************************************************)
(* Bounds                                                                  *)
(***************************************************************************)
MaxLen == 3          \* length of the texts calculateSimilarity is tried on
MaxInput == 3        \* length of the text typed into the InputModal
MaxClock == 2        \* seconds the clock may advance
MaxRequests == 2     \* fetch() calls counted

(***************************************************************************)
(* String helpers: JavaScript's String methods                            *)
(***************************************************************************)
Undefined == "undefined"
NoFile == "<no file>"
NoError == "<no error>"
NoNotice == "<no notice>"

charAt(s, i) == SubSeq(s, i, i)

Range(f) == {f[i] : i \in DOMAIN f}

\* /\s/ : the whitespace characters that occur in the model's texts
isWhitespace(c) == c \in {" ", "\n", "\t"}

UpperCase == "ABCDEFGHIJKLMNOPQRSTUVWXYZ"
LowerCase == "abcdefghijklmnopqrstuvwxyz"

Digits == "0123456789"
Chars(s) == {charAt(s, i) : i \in 1..Len(s)}
UpperChars == Chars(UpperCase)
Alphanumerics == Chars(UpperCase) \cup Chars(LowerCase) \cup Chars(Digits)
LowerOf == [c \in UpperChars |->
               charAt(LowerCase, CHOOSE i \in 1..Len(UpperCase) : charAt(UpperCase, i) = c)]

lowerChar(c) == IF c \in UpperChars THEN LowerOf[c] ELSE c

\* character by character; the text is halved so that long texts nest little
RECURSIVE toLowerCase(_)
toLowerCase(s) ==
    IF Len(s) = 0 THEN ""
    ELSE IF Len(s) = 1 THEN lowerChar(s)
    ELSE toLowerCase(SubSeq(s, 1, Len(s) \div 2))
         \o toLowerCase(SubSeq(s, Len(s) \div 2 + 1, Len(s)))

\* s.startsWith(p)
startsWith(s, p) == Len(s) >= Len(p) /\ SubSeq(s, 1, Len(p)) = p

\* s.includes(p)
includes(s, p) == \E i \in 1..(Len(s) - Len(p) + 1) : SubSeq(s, i, i + Len(p) - 1) = p

Min(S) == CHOOSE i \in S : \A j \in S : i <= j
Max(S) == CHOOSE i \in S : \A j \in S : i >= j

\* s.indexOf(p) from position `from` (1-based); 0 when p does not occur
indexOfFrom(s, p, from) ==
    LET hits == {i \in from..(Len(s) - Len(p) + 1) : SubSeq(s, i, i + Len(p) - 1) = p}
    IN  IF hits = {} THEN 0 ELSE Min(hits)

lastIndexOf(s, p) ==
    LET hits == {i \in 1..(Len(s) - Len(p) + 1) : SubSeq(s, i, i + Len(p) - 1) = p}
    IN  IF hits = {} THEN 0 ELSE Max(hits)

RECURSIVE trimStart(_)
trimStart(s) ==
    IF s # "" /\ isWhitespace(Head(s)) THEN trimStart(Tail(s)) ELSE s

RECURSIVE trimEnd(_)
trimEnd(s) ==
    IF s # "" /\ isWhitespace(charAt(s, Len(s)))
    THEN trimEnd(SubSeq(s, 1, Len(s) - 1)) ELSE s

trim(s) == trimEnd(trimStart(s))

\* the numbers of S in ascending order
RECURSIVE ascending(_)
ascending(S) == IF S = {} THEN <<>> ELSE <<Min(S)>> \o ascending(S \ {Min(S)})

\* s.split(/\s+/): cut at every maximal run of whitespace; a text that starts
\* or ends with whitespace yields an empty first or last word, "" yields [""].
splitWhitespace(s) ==
    LET spaces == {i \in 1..Len(s) : isWhitespace(charAt(s, i))}
        first  == ascending({i \in 1..Len(s) \ spaces : i = 1 \/ i - 1 \in spaces})
        last   == ascending({i \in 1..Len(s) \ spaces : i = Len(s) \/ i + 1 \in spaces})
    IN  (IF s = "" \/ 1 \in spaces THEN <<"">> ELSE <<>>)
        \o [k \in 1..Len(first) |-> SubSeq(s, first[k], last[k])]
        \o (IF Len(s) \in spaces THEN <<"">> ELSE <<>>)

\* s.split(sep) for a one-character separator: the pieces of s from position i on
RECURSIVE splitCharFrom(_, _, _)
splitCharFrom(s, sep, i) ==
    LET at == indexOfFrom(s, sep, i)
    IN  IF at = 0 THEN <<SubSeq(s, i, Len(s))>>
        ELSE <<SubSeq(s, i, at - 1)>> \o splitCharFrom(s, sep, at + 1)

splitChar(s, sep) == splitCharFrom(s, sep, 1)

\* parts.join(sep)
RECURSIVE join(_, _)
join(parts, sep) ==
    IF Len(parts) = 0 THEN ""
    ELSE IF Len(parts) = 1 THEN parts[1]
    ELSE parts[1] \o sep \o join(Tail(parts), sep)

\* the strings over `alphabet` (a set of one-character strings) of length <= n
RECURSIVE StringsUpTo(_, _)
StringsUpTo(alphabet, n) ==
    IF n = 0 THEN {""}
    ELSE LET shorter == StringsUpTo(alphabet, n - 1)
         IN  shorter \cup {s \o c : s \in shorter, c \in alphabet}

\* the orders in which the elements of S may be listed
RECURSIVE Enumerations(_)
Enumerations(S) ==
    IF S = {} THEN {<<>>}
    ELSE UNION {{<<x>> \o e : e \in Enumerations(S \ {x})} : x \in S}

(***************************************************************************)
(* AIService.calculateSimilarity                                           *)
(***************************************************************************)
\* The quotient intersection.length / union.length, kept as a fraction.
calculateSimilarity(content1, content2) ==
    LET words1 == splitWhitespace(toLowerCase(content1))
        words2 == splitWhitespace(toLowerCase(content2))
        intersection == SelectSeq(words1, LAMBDA word : word \in Range(words2))
        union == Range(words1) \cup Range(words2)
    IN  [num |-> Len(intersection), den |-> Cardinality(union)]

NoScore == [num |-> 0 - 1, den |-> 1]

(***************************************************************************)
(* ZettelkastenPlugin.extractFrontmatter                                   *)
(***************************************************************************)
\* content.match(/^---\n(.*?)\n---/s): the text between a first line "---" and
\* the first later line that starts with "---"; Undefined when there is none.
\* The group starts at character 5, so the closing "\n---" starts at 5 or later.
frontmatterBlock(content) ==
    IF ~startsWith(content, "---\n") THEN Undefined
    ELSE LET close == indexOfFrom(content, "\n---", 5)
         IN  IF close = 0 THEN Undefined ELSE SubSeq(content, 5, close - 1)

\* const [key, ...value] = line.split(':'); [key.trim(), value.join(':').trim()]
frontmatterEntryUntrimmed(line) ==
    LET parts == splitChar(line, ":")
    IN  <<parts[1], join(Tail(parts), ":")>>

frontmatterEntry(line) ==
    LET parts == splitChar(line, ":")
    IN  <<trim(parts[1]), trim(join(Tail(parts), ":"))>>

\* Object.fromEntries: a later entry replaces an earlier one with the same key
extractFrontmatter(content) ==
    LET block == frontmatterBlock(content)
    IN  IF block = Undefined THEN [k \in {} |-> ""]
        ELSE LET lines == SelectSeq(splitChar(block, "\n"), LAMBDA line : includes(line, ":"))
                 entries == [i \in 1..Len(lines) |-> frontmatterEntry(lines[i])]
                 keys == {entries[i][1] : i \in 1..Len(lines)}
                 last(k) == CHOOSE i \in 1..Len(lines) :
                                /\ entries[i][1] = k
                                /\ \A j \in 1..Len(lines) : entries[j][1] = k => j <= i
             IN  [k \in keys |-> entries[last(k)][2]]

\* frontmatter.<key>
property(obj, key) == IF key \in DOMAIN obj THEN obj[key] ELSE Undefined

(***************************************************************************)
(* Time: new Date().toISOString() and generateTimestamp                    *)
(***************************************************************************)
\* new Date().toISOString() when the clock shows second c of the session
toISOString(c) == "2026-11-01T10:00:0" \o charAt(Digits, c + 1) \o ".000Z"

\* s.replace(/[:.]/g, '-')
RECURSIVE replaceColonsAndDots(_)
replaceColonsAndDots(s) ==
    IF Len(s) = 0 THEN ""
    ELSE IF Len(s) = 1 THEN (IF s \in {":", "."} THEN "-" ELSE s)
    ELSE replaceColonsAndDots(SubSeq(s, 1, Len(s) \div 2))
         \o replaceColonsAndDots(SubSeq(s, Len(s) \div 2 + 1, Len(s)))

generateTimestamp(c) == SubSeq(replaceColonsAndDots(toISOString(c)), 1, 19)

(***************************************************************************)
(* ZettelkastenPlugin.createNote                                           *)
(***************************************************************************)
\* The folder is created when missing; vault.create rejects when a file
\* already is at the path.  The result: what the vault holds afterwards.
createNote(path, content) ==
    LET folderPath == SubSeq(path, 1, lastIndexOf(path, "/") - 1)
        withFolder == folders \cup {folderPath}
    IN  IF path \in DOMAIN vault
        THEN [ok |-> FALSE, vault |-> vault, folders |-> withFolder, files |-> files,
              error |-> "File already exists."]
        ELSE [ok |-> TRUE,
              vault |-> [p \in DOMAIN vault \cup {path} |->
                            IF p = path THEN content ELSE vault[p]],
              folders |-> withFolder, files |-> Append(files, path), error |-> NoError]

(***************************************************************************)
(* ZettelkastenPlugin.createFleetingNote (Capture)                         *)
(***************************************************************************)
Placeholder == "<!-- AI will add processing suggestions here -->"

fleetingNoteContent(content, c) ==
    "---\ntype: fleeting\ncreated: " \o toISOString(c)
    \o "\nprocessed: false\n---\n\n# Fleeting Note - " \o generateTimestamp(c)
    \o "\n\n" \o content \o "\n\n## Processing Notes\n" \o Placeholder \o "\n"

fleetingNotePath(c) ==
    settings.fleetingNotesFolder \o "/" \o "Fleeting-" \o generateTimestamp(c) \o ".md"

\* content is what the InputModal resolved with
createFleetingNote(content) ==
    /\ op' = "createFleetingNote"
    /\ IF content = ""
       THEN /\ created' = NoFile
            /\ raised' = NoError
            /\ UNCHANGED <<vault, folders, files, notice, timer, topics, addLink, review>>
       ELSE LET r == createNote(fleetingNotePath(clock), fleetingNoteContent(content, clock))
            IN  /\ vault' = r.vault
                /\ folders' = r.folders
                /\ files' = r.files
                /\ raised' = r.error
                /\ created' = IF r.ok THEN fleetingNotePath(clock) ELSE NoFile
                /\ notice' = IF r.ok THEN "Fleeting note created!" ELSE notice
    /\ UNCHANGED <<settings, activeFile, clock, requests, promote, connections,
                   userText, simA, simB, simOut, llmData, llmOut, timer, topics, addLink, review>>

\* a second passes
Tick ==
    /\ clock < MaxClock
    /\ clock' = clock + 1
    /\ op' = "tick"
    /\ UNCHANGED <<settings, vault, folders, files, activeFile, requests, notice, raised,
                   created, promote, connections, userText, simA, simB, simOut,
                   llmData, llmOut, timer, topics, addLink, review>>

(***************************************************************************)
(* AIService.callLLM                                                       *)
(***************************************************************************)
\* A value that may be undefined is a sequence: <<>> for undefined (or null),
\* <<v>> for the value v.  A response is what fetch and response.json() give:
\*   net     "ok", or how the transport failed
\*   isNull  the body is the JSON value null
\*   choices data.choices: undefined, or the array; an element has a message
\*           (undefined, or an object with a content that may be undefined)
\*   content data.content: undefined, or the array; an element has a text
Texts == {"", "hi", "yo"}
OptionalTexts == {<<>>} \cup {<<t>> : t \in Texts}
Messages == {<<>>} \cup {<<[content |-> c]>> : c \in OptionalTexts}
Choices == {<<>>, << <<>> >>} \cup {<< <<[message |-> m]>> >> : m \in Messages}
Blocks == {<<>>, << <<>> >>} \cup {<< <<[text |-> t]>> >> : t \in OptionalTexts}

EmptyObject == [net |-> "ok", isNull |-> FALSE, choices |-> <<>>, content |-> <<>>]

Responses ==
    {[net |-> "ok", isNull |-> FALSE, choices |-> c, content |-> b] :
        c \in Choices, b \in Blocks}
    \cup {[EmptyObject EXCEPT !.isNull = TRUE],
          [EmptyObject EXCEPT !.net = "fetch failed"],
          [EmptyObject EXCEPT !.net = "not json"]}

\* data.choices?.[0]?.message?.content
choicesContent(data) ==
    IF data.choices = <<>> THEN <<>>
    ELSE IF data.choices[1] = <<>> THEN <<>>
    ELSE IF data.choices[1][1].message = <<>> THEN <<>>
    ELSE data.choices[1][1].message[1].content

\* data.content?.[0]?.text
contentText(data) ==
    IF data.content = <<>> THEN <<>>
    ELSE IF data.content[1] = <<>> THEN <<>>
    ELSE data.content[1][1].text

\* JavaScript's truthiness of an optional string: undefined and '' are falsy
truthy(v) == v # <<>> /\ v[1] # ""

ConfigurationError == "API key not configured"
TransportError == "Failed to fetch"
SyntaxError == "Unexpected token in JSON"
TypeError == "Cannot read properties of null"

\* the key is looked at after the request went out
callLLMKeyCheckedLate(response) ==
    IF settings.apiKey = ""
    THEN [error |-> ConfigurationError, text |-> "", sent |-> TRUE]
    ELSE [error |-> NoError, text |-> "", sent |-> TRUE]

\* the alternate shape is tried first
receivedSecondPathFirst(response) ==
    IF response.net = "fetch failed"
    THEN [error |-> TransportError, text |-> "", sent |-> TRUE]
    ELSE IF response.net = "not json"
    THEN [error |-> SyntaxError, text |-> "", sent |-> TRUE]
    ELSE IF response.isNull
    THEN [error |-> TypeError, text |-> "", sent |-> TRUE]
    ELSE [error |-> NoError,
          text |-> IF truthy(contentText(response)) THEN contentText(response)[1]
                   ELSE IF truthy(choicesContent(response))
                        THEN choicesContent(response)[1] ELSE "",
          sent |-> TRUE]

\* callLLM from the fetch on: the request is out, the endpoint answers
received(response) ==
    IF response.net = "fetch failed"
    THEN [error |-> TransportError, text |-> "", sent |-> TRUE]
    ELSE IF response.net = "not json"
    THEN [error |-> SyntaxError, text |-> "", sent |-> TRUE]
    ELSE IF response.isNull
    THEN [error |-> TypeError, text |-> "", sent |-> TRUE]
    ELSE [error |-> NoError,
          text |-> IF truthy(choicesContent(response)) THEN choicesContent(response)[1]
                   ELSE IF truthy(contentText(response))
                        THEN contentText(response)[1] ELSE "",
          sent |-> TRUE]

\* The outcome of one call: the error thrown (NoError when it returns), the
\* text returned, and whether fetch was called.
callLLM(response) ==
    IF settings.apiKey = ""
    THEN [error |-> ConfigurationError, text |-> "", sent |-> FALSE]
    ELSE received(response)

(***************************************************************************)
(* Initial state                                                           *)
(***************************************************************************)
DEFAULT_SETTINGS ==
    [apiKey |-> "", connectionThreshold |-> 7, autoProcess |-> FALSE,
     fleetingNotesFolder |-> "Fleeting Notes",
     permanentNotesFolder |-> "Permanent Notes"]

InitialFiles == <<"Permanent Notes/p1.md", "Permanent Notes/p2.md", "Inbox/n1.md">>

\* The vault the session starts with: two permanent notes, one with a
\* front-matter block and one without, and a note outside the plugin's folders.
InitialVault ==
    [p \in Range(InitialFiles) |->
        CASE p = "Permanent Notes/p1.md" -> "---\ntype: permanent\n---\na b"
          [] p = "Permanent Notes/p2.md" -> "a b"
          [] OTHER -> "a"]

\* closedPending: the modal was closed while its request was pending
NoPromote == [open |-> FALSE, flight |-> "idle", file |-> NoFile, content |-> "",
              title |-> "", closedPending |-> FALSE]
\* readFrom is the document findConnections read; the modal is not given it
NoConnections == [open |-> FALSE, list |-> <<>>, readFrom |-> NoFile]
NoOutcome == [error |-> NoError, text |-> "", sent |-> FALSE]
NoTimer == [registered |-> FALSE, period |-> 0]
NoTopics == [open |-> FALSE, list |-> <<>>, reads |-> 0, embedded |-> 0]
NoAddLink == [stage |-> "idle", file |-> NoFile, content |-> "", link |-> "",
              target |-> ""]
NoReview == [open |-> FALSE, reviewNotes |-> <<>>, connectOrphans |-> <<>>,
             developClusters |-> <<>>]

InitPlugin ==
    /\ settings = DEFAULT_SETTINGS
    /\ vault = InitialVault
    /\ folders = {"Permanent Notes", "Inbox"}
    /\ files = InitialFiles
    /\ activeFile = NoFile
    /\ clock = 0
    /\ requests = 0
    /\ notice = NoNotice
    /\ raised = NoError
    /\ op = "onload"
    /\ created = NoFile
    /\ promote = NoPromote
    /\ connections = NoConnections
    /\ timer = NoTimer
    /\ topics = NoTopics
    /\ addLink = NoAddLink
    /\ review = NoReview

InitSim == simA = "" /\ simB = "" /\ simOut = NoScore
InitLLM == llmData = EmptyObject /\ llmOut = NoOutcome

(***************************************************************************)
(* Settings tab and workspace                                              *)
(***************************************************************************)
Thresholds == 1..10      \* the slider: 0.1 to 1.0 in steps of 0.1, in tenths

\* the settings tab's Connection Threshold slider
setConnectionThreshold(value) ==
    /\ settings' = [settings EXCEPT !.connectionThreshold = value]
    /\ op' = "setConnectionThreshold"
    /\ UNCHANGED <<vault, folders, files, activeFile, clock, requests, notice, raised,
                   created, promote, connections, userText, simA, simB, simOut,
                   llmData, llmOut, timer, topics, addLink, review>>

\* the settings tab's API Key field
setApiKey(value) ==
    /\ settings' = [settings EXCEPT !.apiKey = value]
    /\ op' = "setApiKey"
    /\ UNCHANGED <<vault, folders, files, activeFile, clock, requests, notice, raised,
                   created, promote, connections, userText, simA, simB, simOut,
                   llmData, llmOut, timer, topics, addLink, review>>

\* the settings tab's Permanent Notes Folder field
setPermanentNotesFolder(value) ==
    /\ settings' = [settings EXCEPT !.permanentNotesFolder = value]
    /\ op' = "setPermanentNotesFolder"
    /\ UNCHANGED <<vault, folders, files, activeFile, clock, requests, notice, raised,
                   created, promote, connections, userText, simA, simB, simOut,
                   llmData, llmOut, timer, topics, addLink, review>>

\* the settings tab's Auto-process toggle: the flag is stored and saved, the
\* interval registered by onload is neither created nor cleared
setAutoProcess(value) ==
    /\ settings' = [settings EXCEPT !.autoProcess = value]
    /\ op' = "setAutoProcess"
    /\ UNCHANGED <<vault, folders, files, activeFile, clock, requests, notice, raised,
                   created, promote, connections, userText, simA, simB, simOut,
                   llmData, llmOut, timer, topics, addLink, review>>

\* the user opens a document, which becomes the active file
openFile(path) ==
    /\ path \in DOMAIN vault
    /\ activeFile' = path
    /\ op' = "openFile"
    /\ UNCHANGED <<settings, vault, folders, files, clock, requests, notice, raised,
                   created, promote, connections, userText, simA, simB, simOut,
                   llmData, llmOut, timer, topics, addLink, review>>

(***************************************************************************)
(* AIService.findSimilarNotes and ZettelkastenPlugin.findConnections       *)
(***************************************************************************)
\* file.name
fileName(path) == SubSeq(path, lastIndexOf(path, "/") + 1, Len(path))

\* file.basename
basename(path) ==
    LET name == fileName(path)
        dot == lastIndexOf(name, ".")
    IN  IF dot = 0 THEN name ELSE SubSeq(name, 1, dot - 1)

aboveOrAtThreshold(similarity) ==
    similarity.num * 10 >= settings.connectionThreshold * similarity.den

\* similarity > this.settings.connectionThreshold
aboveThreshold(similarity) ==
    similarity.num * 10 > settings.connectionThreshold * similarity.den

\* similarities.sort((a, b) => b.similarity - a.similarity): descending and
\* stable, so x goes behind every element that scores at least as much
insertBySimilarity(sorted, x) ==
    LET ahead == {i \in 1..Len(sorted) :
                    sorted[i].similarity.num * x.similarity.den
                        >= x.similarity.num * sorted[i].similarity.den}
        k == Cardinality(ahead)
    IN  SubSeq(sorted, 1, k) \o <<x>> \o SubSeq(sorted, k + 1, Len(sorted))

\* the list as the vault gave it
sortBySimilarityOmitted(list) == list

RECURSIVE sortBySimilarity(_)
sortBySimilarity(list) ==
    IF list = <<>> THEN <<>>
    ELSE insertBySimilarity(sortBySimilarity(SubSeq(list, 1, Len(list) - 1)),
                            list[Len(list)])

\* The endpoint answers every explainConnection call of one run with `response`.
\* The result: the error thrown, the sorted list, the number of fetch calls.
findSimilarNotes(content, response) ==
    LET permanentNotes ==
            SelectSeq(files, LAMBDA file : startsWith(file, "Permanent Notes/"))
        kept == SelectSeq(permanentNotes, LAMBDA file :
                    aboveThreshold(calculateSimilarity(content, vault[file])))
        explained == callLLM(response)
    IN  IF kept = <<>> THEN [error |-> NoError, list |-> <<>>, calls |-> 0]
        ELSE IF explained.error # NoError
        THEN [error |-> explained.error, list |-> <<>>,
              calls |-> IF explained.sent THEN 1 ELSE 0]
        ELSE [error |-> NoError,
              list |-> sortBySimilarity(
                  [i \in 1..Len(kept) |->
                      [file |-> fileName(kept[i]),
                       similarity |-> calculateSimilarity(content, vault[kept[i]]),
                       reason |-> explained.text]]),
              calls |-> Len(kept)]

findConnections(response) ==
    /\ op' = "findConnections"
    /\ IF activeFile = NoFile
       THEN /\ notice' = "No active file"
            /\ raised' = NoError
            /\ UNCHANGED <<requests, connections, timer, topics, addLink, review>>
       ELSE LET found == findSimilarNotes(vault[activeFile], response)
            IN  /\ requests + found.calls <= MaxRequests
                /\ requests' = requests + found.calls
                /\ raised' = found.error
                /\ connections' = IF found.error = NoError
                                  THEN [open |-> TRUE, list |-> found.list,
                                        readFrom |-> activeFile]
                                  ELSE connections
                /\ UNCHANGED notice
    /\ UNCHANGED <<settings, vault, folders, files, activeFile, clock, created, promote,
                   userText, simA, simB, simOut, llmData, llmOut, timer, topics, addLink, review>>

\* the user closes the ConnectionsModal
closeConnections ==
    /\ connections.open
    /\ connections' = NoConnections
    /\ op' = "closeConnections"
    /\ UNCHANGED <<settings, vault, folders, files, activeFile, clock, requests, notice,
                   raised, created, promote, userText, simA, simB, simOut,
                   llmData, llmOut, timer, topics, addLink, review>>

(***************************************************************************)
(* ZettelkastenPlugin.processCurrentNoteToPermanent and ProcessingModal    *)
(***************************************************************************)
\* the frontmatter type is not looked at
processCurrentNoteToPermanentUnchecked ==
    /\ ~promote.open /\ promote.flight = "idle"
    /\ activeFile # NoFile
    /\ op' = "processCurrentNoteToPermanent"
    /\ raised' = NoError
    /\ promote' = [open |-> TRUE, flight |-> "idle", file |-> activeFile,
                   content |-> vault[activeFile], title |-> "",
                   closedPending |-> FALSE]
    /\ UNCHANGED <<settings, vault, folders, files, activeFile, clock, requests, notice,
                   created, connections, userText, simA, simB, simOut, llmData, llmOut, timer, topics, addLink, review>>

\* One ProcessingModal and one request of it at a time.
processCurrentNoteToPermanent ==
    /\ ~promote.open /\ promote.flight = "idle"
    /\ op' = "processCurrentNoteToPermanent"
    /\ raised' = NoError
    /\ IF activeFile = NoFile
       THEN notice' = "No active file" /\ UNCHANGED promote
       ELSE LET content == vault[activeFile]
                frontmatter == extractFrontmatter(content)
            IN  IF property(frontmatter, "type") # "fleeting"
                THEN notice' = "Current note is not a fleeting note" /\ UNCHANGED promote
                ELSE /\ promote' = [open |-> TRUE, flight |-> "idle", file |-> activeFile,
                                    content |-> content, title |-> "",
                                    closedPending |-> FALSE]
                     /\ UNCHANGED notice
    /\ UNCHANGED <<settings, vault, folders, files, activeFile, clock, requests,
                   created, connections, userText, simA, simB, simOut, llmData, llmOut, timer, topics, addLink, review>>

\* What the endpoint may answer to the Promote prompt: the requested JSON object.
PromoteJSON ==
    "{\"title\":\"Idea\",\"content\":\"a b\",\"keywords\":[\"k\"],\"connections\":[\"c\"]}"
PromoteResult ==
    [title |-> "Idea", content |-> "a b", keywords |-> <<"k">>, connections |-> <<"c">>]

\* What the endpoint may answer to the topics prompt: the requested JSON array.
TopicsJSON ==
    "[{\"topic\":\"My topic\",\"noteCount\":3,\"readiness\":7,\"angle\":\"x\"}]"

\* the texts of the model's endpoint that JSON.parse accepts
JSONTexts == {PromoteJSON, TopicsJSON}

\* JSON.parse, for the texts the model's endpoint returns
parses(text) == text \in JSONTexts

\* result.title.replace(...) when the JSON parsed has no title
TitleTypeError == "Cannot read properties of undefined (reading 'replace')"

\* s.replace(/[^a-zA-Z0-9]/g, '-')
RECURSIVE replaceNonAlphanumerics(_)
replaceNonAlphanumerics(s) ==
    IF Len(s) = 0 THEN ""
    ELSE IF Len(s) = 1 THEN (IF s \in Alphanumerics THEN s ELSE "-")
    ELSE replaceNonAlphanumerics(SubSeq(s, 1, Len(s) \div 2))
         \o replaceNonAlphanumerics(SubSeq(s, Len(s) \div 2 + 1, Len(s)))

\* s.replace(pattern, replacement) for a string pattern: the first occurrence
replaceFirst(s, pattern, replacement) ==
    LET at == indexOfFrom(s, pattern, 1)
    IN  IF at = 0 THEN s
        ELSE SubSeq(s, 1, at - 1) \o replacement
             \o SubSeq(s, at + Len(pattern), Len(s))

RECURSIVE joinMapped(_, _, _, _)
joinMapped(items, before, after, sep) ==
    IF Len(items) = 0 THEN ""
    ELSE IF Len(items) = 1 THEN before \o items[1] \o after
    ELSE before \o items[1] \o after \o sep \o joinMapped(Tail(items), before, after, sep)

permanentNoteContent(result, file, c) ==
    "---\ntype: permanent\ncreated: " \o toISOString(c)
    \o "\nkeywords: [" \o joinMapped(result.keywords, "\"", "\"", ", ")
    \o "]\n---\n\n# " \o result.title \o "\n\n" \o result.content
    \o "\n\n## Potential Connections\n" \o joinMapped(result.connections, "- ", "", "\n")
    \o "\n\n## Source\nProcessed from: [[" \o basename(file) \o "]]\n"

permanentNotePath(result, c) ==
    settings.permanentNotesFolder \o "/" \o replaceNonAlphanumerics(result.title)
    \o "-" \o generateTimestamp(c) \o ".md"

\* The Process button, up to the await of fetch: callLLM throws without a key
\* (the handler catches it), else the request goes out.
promoteProcess ==
    /\ promote.open /\ promote.flight = "idle"
    /\ op' = "promoteProcess"
    /\ raised' = NoError
    /\ IF settings.apiKey = ""
       THEN /\ notice' = "Processing failed: " \o ConfigurationError
            /\ UNCHANGED <<requests, promote, timer, topics, addLink, review>>
       ELSE /\ requests < MaxRequests
            /\ requests' = requests + 1
            /\ promote' = [promote EXCEPT !.flight = "pending"]
            /\ UNCHANGED notice
    /\ UNCHANGED <<settings, vault, folders, files, activeFile, clock, created,
                   connections, userText, simA, simB, simOut, llmData, llmOut, timer, topics, addLink, review>>

\* a failed createNote does not stop the handler
promoteResponseGoesOn(response) ==
    /\ promote.flight = "pending"
    /\ op' = "promoteResponse"
    /\ raised' = NoError
    /\ llmOut' = received(response)
    /\ LET answer == received(response)
           failed(message) ==
                /\ notice' = "Processing failed: " \o message
                /\ promote' = [promote EXCEPT !.flight = "idle"]
                /\ created' = NoFile
                /\ UNCHANGED <<vault, folders, files>>
       IN  IF answer.error # NoError THEN failed(answer.error)
           ELSE IF ~parses(answer.text) THEN failed(SyntaxError)
           ELSE IF answer.text # PromoteJSON THEN failed(TitleTypeError)
           ELSE LET path == permanentNotePath(PromoteResult, clock)
                    r == createNote(path,
                            permanentNoteContent(PromoteResult, promote.file, clock))
                IN  /\ vault' = r.vault
                    /\ folders' = r.folders
                    /\ files' = r.files
                    /\ created' = IF r.ok THEN path ELSE NoFile
                    /\ notice' = IF r.ok THEN notice
                                 ELSE "Processing failed: " \o r.error
                    /\ promote' = [promote EXCEPT !.flight = "created",
                                                   !.title = PromoteResult.title]
    /\ UNCHANGED <<settings, activeFile, clock, requests, connections, userText,
                   simA, simB, simOut, llmData, timer, topics, addLink, review>>

\* The endpoint answers: JSON.parse, then createNote of the permanent note.
promoteResponse(response) ==
    /\ promote.flight = "pending"
    /\ op' = "promoteResponse"
    /\ raised' = NoError
    /\ llmOut' = received(response)
    /\ LET answer == received(response)
           failed(message) ==
                /\ notice' = "Processing failed: " \o message
                /\ promote' = [promote EXCEPT !.flight = "idle"]
                /\ created' = NoFile
                /\ UNCHANGED <<vault, folders, files>>
       IN  IF answer.error # NoError THEN failed(answer.error)
           ELSE IF ~parses(answer.text) THEN failed(SyntaxError)
           ELSE IF answer.text # PromoteJSON THEN failed(TitleTypeError)
           ELSE LET path == permanentNotePath(PromoteResult, clock)
                    r == createNote(path,
                            permanentNoteContent(PromoteResult, promote.file, clock))
                IN  /\ vault' = r.vault
                    /\ folders' = r.folders
                    /\ files' = r.files
                    /\ created' = IF r.ok THEN path ELSE NoFile
                    /\ notice' = IF r.ok THEN notice
                                 ELSE "Processing failed: " \o r.error
                    /\ promote' = IF r.ok
                                  THEN [promote EXCEPT !.flight = "created",
                                                       !.title = PromoteResult.title]
                                  ELSE [promote EXCEPT !.flight = "idle"]
    /\ UNCHANGED <<settings, activeFile, clock, requests, connections, userText,
                   simA, simB, simOut, llmData, timer, topics, addLink, review>>

\* the back-reference written into the note just created instead of the
\* fleeting note
promoteModifyCreated ==
    /\ promote.flight = "created"
    /\ op' = "promoteModify"
    /\ raised' = NoError
    /\ vault' = [vault EXCEPT ![created] =
                    replaceFirst(promote.content, Placeholder,
                                 "<!-- Processed to: [[" \o promote.title \o "]] -->")]
    /\ notice' = "Created permanent note: " \o promote.title
    /\ promote' = [promote EXCEPT !.open = FALSE, !.flight = "idle"]
    /\ created' = NoFile
    /\ UNCHANGED <<settings, folders, files, activeFile, clock, requests, connections,
                   userText, simA, simB, simOut, llmData, llmOut, timer, topics, addLink, review>>

\* The permanent note is written: the fleeting note is rewritten from the
\* content the modal was opened with, and the modal closes.
promoteModify ==
    /\ promote.flight = "created"
    /\ op' = "promoteModify"
    /\ raised' = NoError
    /\ vault' = [vault EXCEPT ![promote.file] =
                    replaceFirst(promote.content, Placeholder,
                                 "<!-- Processed to: [[" \o promote.title \o "]] -->")]
    /\ notice' = "Created permanent note: " \o promote.title
    /\ promote' = [promote EXCEPT !.open = FALSE, !.flight = "idle"]
    /\ created' = NoFile
    /\ UNCHANGED <<settings, folders, files, activeFile, clock, requests, connections,
                   userText, simA, simB, simOut, llmData, llmOut, timer, topics, addLink, review>>

\* the Cancel button, or the modal is closed
promoteCancel ==
    /\ promote.open
    /\ promote' = [promote EXCEPT !.open = FALSE,
                                  !.closedPending = (promote.flight = "pending")]
    /\ op' = "promoteCancel"
    /\ UNCHANGED <<settings, vault, folders, files, activeFile, clock, requests, notice,
                   raised, created, connections, userText, simA, simB, simOut,
                   llmData, llmOut, timer, topics, addLink, review>>

(***************************************************************************)
(* ConnectionsModal: the Add Link button                                   *)
(***************************************************************************)
linkText(connection) ==
    "\n\n## Related\n- [[" \o replaceFirst(connection.file, ".md", "")
    \o "]] - " \o connection.reason

\* The Add Link button of the i-th suggestion, up to the await of vault.read:
\* the file that is active now is read.
addLinkRead(i) ==
    /\ connections.open /\ i \in 1..Len(connections.list)
    /\ addLink.stage = "idle"
    /\ op' = "addLinkRead"
    /\ raised' = NoError
    /\ addLink' = IF activeFile = NoFile THEN addLink
                  ELSE [stage |-> "read", file |-> activeFile,
                        content |-> vault[activeFile],
                        link |-> linkText(connections.list[i]),
                        target |-> connections.list[i].file]
    /\ UNCHANGED <<settings, vault, folders, files, activeFile, clock, requests, notice,
                   created, promote, connections, userText, simA, simB, simOut,
                   llmData, llmOut, timer, topics, review>>

\* the link block appended to what the document holds at the time of the write
addLinkWriteRereads ==
    /\ addLink.stage = "read"
    /\ op' = "addLinkWrite"
    /\ raised' = NoError
    /\ vault' = [vault EXCEPT ![addLink.file] = vault[addLink.file] \o addLink.link]
    /\ notice' = "Added link to " \o addLink.target
    /\ connections' = NoConnections
    /\ addLink' = NoAddLink
    /\ UNCHANGED <<settings, folders, files, activeFile, clock, requests,
                   created, promote, userText, simA, simB, simOut,
                   llmData, llmOut, timer, topics, review>>

\* The content read, with the link block appended, is written; the modal closes.
addLinkWrite ==
    /\ addLink.stage = "read"
    /\ op' = "addLinkWrite"
    /\ raised' = NoError
    /\ vault' = [vault EXCEPT ![addLink.file] = addLink.content \o addLink.link]
    /\ notice' = "Added link to " \o addLink.target
    /\ connections' = NoConnections
    /\ addLink' = NoAddLink
    /\ UNCHANGED <<settings, folders, files, activeFile, clock, requests,
                   created, promote, userText, simA, simB, simOut,
                   llmData, llmOut, timer, topics, review>>

(***************************************************************************)
(* StructureNoteModal and AIService.createStructureNote                    *)
(***************************************************************************)
\* the notes the StructureNoteModal offers for selection
structureChoices ==
    {file \in Range(files) : startsWith(file, settings.permanentNotesFolder)}

\* The Create Structure Note button, with the topic typed and the notes
\* ticked.  The generated text is returned to the handler, which drops it.
structureCreate(topic, selectedNotes, response) ==
    /\ selectedNotes \subseteq structureChoices
    /\ op' = "structureCreate"
    /\ raised' = NoError
    /\ created' = NoFile
    /\ IF topic = ""
       THEN notice' = "Please enter a topic" /\ UNCHANGED <<requests, llmOut>>
       ELSE IF selectedNotes = {}
       THEN notice' = "Please select at least one note" /\ UNCHANGED <<requests, llmOut>>
       ELSE LET answer == callLLM(response)
            IN  /\ requests + (IF answer.sent THEN 1 ELSE 0) <= MaxRequests
                /\ requests' = requests + (IF answer.sent THEN 1 ELSE 0)
                /\ llmOut' = answer
                /\ notice' = IF answer.error = NoError
                             THEN "Created structure note for: " \o topic
                             ELSE "Failed to create structure note: " \o answer.error
    /\ UNCHANGED <<settings, vault, folders, files, activeFile, clock, promote,
                   connections, userText, simA, simB, simOut, llmData,
                   timer, topics, addLink, review>>

(***************************************************************************)
(* Writing topics: suggestWritingTopics, AIService.identifyWritingTopics   *)
(* and the WritingTopicsModal                                              *)
(***************************************************************************)
TopicNotesCap == 50      \* noteContents.slice(0, 50)

TopicsResult ==
    <<[topic |-> "My topic", noteCount |-> "3", readiness |-> "7", angle |-> "x"]>>

TopicsTypeError == "this.topics.forEach is not a function"
OutlineTypeError == "this.plugin.aiService.generateDraftOutline is not a function"

\* The Suggest Writing Topics command.  Every permanent note is read, the
\* first TopicNotesCap bodies go into the prompt; nothing is caught.
suggestWritingTopics(response) ==
    LET allNotes == SelectSeq(files, LAMBDA file : startsWith(file, "Permanent Notes/"))
        noteContents == [i \in 1..Len(allNotes) |-> vault[allNotes[i]]]
        embedded == SubSeq(noteContents, 1, Min({TopicNotesCap, Len(noteContents)}))
        answer == callLLM(response)
        ran == [topics EXCEPT !.reads = Len(allNotes), !.embedded = Len(embedded)]
    IN  /\ op' = "suggestWritingTopics"
        /\ requests + (IF answer.sent THEN 1 ELSE 0) <= MaxRequests
        /\ requests' = requests + (IF answer.sent THEN 1 ELSE 0)
        /\ llmOut' = answer
        /\ IF answer.error # NoError
           THEN raised' = answer.error /\ topics' = ran
           ELSE IF answer.text \notin JSONTexts
           THEN raised' = SyntaxError /\ topics' = ran
           ELSE IF answer.text = TopicsJSON
           THEN /\ raised' = NoError
                /\ topics' = [ran EXCEPT !.open = TRUE, !.list = TopicsResult]
           ELSE /\ raised' = TopicsTypeError
                /\ topics' = [ran EXCEPT !.open = TRUE, !.list = <<>>]
        /\ UNCHANGED <<settings, vault, folders, files, activeFile, clock, notice,
                       created, promote, connections, userText, simA, simB, simOut,
                       llmData, timer, addLink, review>>

writingProjectPath(topic, c) ==
    "Writing Projects/" \o replaceNonAlphanumerics(topic.topic) \o "-"
    \o SubSeq(toISOString(c), 1, 10) \o ".md"

writingProjectContent(topic, c) ==
    "---\ntype: writing-project\ntopic: " \o topic.topic
    \o "\ncreated: " \o toISOString(c)
    \o "\nstatus: draft\nreadiness: " \o topic.readiness
    \o "/10\nrelated-notes: " \o topic.noteCount
    \o "\n---\n\n# " \o topic.topic
    \o "\n\n## Proposed Angle\n" \o topic.angle
    \o "\n\n## Outline\n<!-- Generate outline using the \"Generate Outline\" command -->"
    \o "\n\n## Draft\n<!-- Your writing goes here -->"
    \o "\n\n## Related Notes\n<!-- Links to source notes will be added here -->"
    \o "\n\n## Research Gaps\n<!-- Areas that need more development -->\n"

\* the Start Writing button of the i-th topic: createWritingProject, not caught
startWriting(i) ==
    /\ topics.open /\ i \in 1..Len(topics.list)
    /\ op' = "startWriting"
    /\ LET path == writingProjectPath(topics.list[i], clock)
           r == createNote(path, writingProjectContent(topics.list[i], clock))
       IN  /\ vault' = r.vault
           /\ folders' = r.folders
           /\ files' = r.files
           /\ created' = IF r.ok THEN path ELSE NoFile
           /\ raised' = IF r.ok THEN NoError ELSE r.error
           /\ notice' = IF r.ok THEN "Created writing project: " \o topics.list[i].topic
                        ELSE notice
           /\ activeFile' = IF r.ok THEN path ELSE activeFile
           /\ topics' = IF r.ok THEN NoTopics ELSE topics
    /\ UNCHANGED <<settings, clock, requests, promote, connections, userText,
                   simA, simB, simOut, llmData, llmOut, timer, addLink, review>>

\* the Generate Outline button: generateDraftOutline does not exist, the
\* TypeError is caught by the handler
generateOutline(i) ==
    /\ topics.open /\ i \in 1..Len(topics.list)
    /\ op' = "generateOutline"
    /\ raised' = NoError
    /\ notice' = "Failed to generate outline: " \o OutlineTypeError
    /\ UNCHANGED <<settings, vault, folders, files, activeFile, clock, requests,
                   created, promote, connections, userText, simA, simB, simOut,
                   llmData, llmOut, timer, topics, addLink, review>>

\* the user closes the WritingTopicsModal
closeTopics ==
    /\ topics.open
    /\ topics' = NoTopics
    /\ op' = "closeTopics"
    /\ UNCHANGED <<settings, vault, folders, files, activeFile, clock, requests, notice,
                   raised, created, promote, connections, userText, simA, simB, simOut,
                   llmData, llmOut, timer, addLink, review>>

(***************************************************************************)
(* Daily review: AIService.getDailyReviewSuggestions and DailyReviewModal  *)
(***************************************************************************)
\* (content.match(/\[\[.*?\]\]/g) || []).length, counting from position `from`
RECURSIVE linkCountFrom(_, _)
linkCountFrom(s, from) ==
    LET at == indexOfFrom(s, "[[", from)
        close == IF at = 0 THEN 0 ELSE indexOfFrom(s, "]]", at + 2)
    IN  IF at = 0 \/ close = 0 THEN 0
        ELSE IF includes(SubSeq(s, at + 2, close - 1), "\n")
        THEN linkCountFrom(s, at + 1)
        ELSE 1 + linkCountFrom(s, close + 2)

\* findOrphanedNotes: permanent notes with fewer than two links, five at most
findOrphanedNotes ==
    LET permanentNotes ==
            SelectSeq(files, LAMBDA file : startsWith(file, "Permanent Notes/"))
        orphans == SelectSeq(permanentNotes,
                             LAMBDA file : linkCountFrom(vault[file], 1) < 2)
    IN  [i \in 1..Min({5, Len(orphans)}) |-> fileName(orphans[i])]

\* The Daily Review command: up to ten permanent notes in the order the
\* random sort left them in, the orphans, the fixed clusters; the modal opens.
dailyReview(shuffled) ==
    /\ shuffled \in Enumerations({file \in Range(files) :
                                    startsWith(file, "Permanent Notes/")})
    /\ op' = "dailyReview"
    /\ raised' = NoError
    /\ review' = [open |-> TRUE,
                       reviewNotes |->
                           [i \in 1..Min({10, Len(shuffled)}) |-> fileName(shuffled[i])],
                       connectOrphans |-> findOrphanedNotes,
                       developClusters |->
                           <<"productivity", "learning theory", "systems thinking">>]
    /\ UNCHANGED <<settings, vault, folders, files, activeFile, clock, requests, notice,
                   created, promote, connections, userText, simA, simB, simOut,
                   llmData, llmOut, timer, topics, addLink>>

\* Mark Complete or Remind Me Later: a notice, the modal closes
closeReview(text) ==
    /\ review.open
    /\ review' = NoReview
    /\ notice' = text
    /\ op' = "closeReview"
    /\ UNCHANGED <<settings, vault, folders, files, activeFile, clock, requests,
                   raised, created, promote, connections, userText, simA, simB, simOut,
                   llmData, llmOut, timer, topics, addLink>>

(***************************************************************************)
(* calculateSimilarity on its own: every pair of short texts               *)
(***************************************************************************)
SimAlphabet == {"a", "b", "A", " "}
SimTexts == StringsUpTo(SimAlphabet, MaxLen)

InitSimilarity ==
    /\ InitPlugin /\ InitLLM
    /\ userText = ""
    /\ simA \in SimTexts
    /\ simB \in SimTexts
    /\ simOut = NoScore

Similarity ==
    /\ simOut = NoScore
    /\ simOut' = calculateSimilarity(simA, simB)
    /\ UNCHANGED <<settings, vault, folders, files, activeFile, clock, requests, notice, raised,
                   op, created, promote, connections, userText, simA, simB,
                   llmData, llmOut, timer, topics, addLink, review>>

SpecSim == InitSimilarity /\ [][Similarity]_vars

\* C1: for every non-empty text a, calculateSimilarity(a, a) is exactly 1.
C1_SelfSimilarityIsOne ==
    (simOut # NoScore /\ simA = simB /\ simA # "") => simOut.num = simOut.den

\* C2: calculateSimilarity(a, b) equals calculateSimilarity(b, a).
C2_Symmetric ==
    simOut # NoScore =>
        LET back == calculateSimilarity(simB, simA)
        IN  simOut.num * back.den = back.num * simOut.den

\* C3: for non-empty a and b, calculateSimilarity(a, b) lies in [0, 1].
C3_InUnitInterval ==
    (simOut # NoScore /\ simA # "" /\ simB # "") =>
        (0 <= simOut.num /\ simOut.num <= simOut.den)

\* C4: calculateSimilarity of two empty texts is 0.
C4_EmptyTextsScoreZero ==
    (simOut # NoScore /\ simA = "" /\ simB = "") => simOut.num = 0

(***************************************************************************)
(* Capture on its own: every short input text                              *)
(***************************************************************************)
InputAlphabet == {"a", ":", "-", " "}
InputTexts == StringsUpTo(InputAlphabet, MaxInput) \cup {"idea about X"}

InitCapture ==
    /\ InitPlugin /\ InitSim /\ InitLLM
    /\ userText \in InputTexts

\* the user submits the InputModal with the text typed
Capture == createFleetingNote(userText)

NextCapture == Capture \/ Tick

SpecCapture == InitCapture /\ [][NextCapture]_vars

\* C7: the content Capture writes parses back to type = "fleeting" and
\* processed = "false", whatever the input text.
C7_CaptureFrontmatterRoundTrip ==
    (op = "createFleetingNote" /\ created # NoFile) =>
        LET frontmatter == extractFrontmatter(vault[created])
        IN  /\ property(frontmatter, "type") = "fleeting"
            /\ property(frontmatter, "processed") = "false"

\* a Capture of a text with a colon wrote a document whose created value has colons
C7_Witness ==
    /\ op = "createFleetingNote" /\ created # NoFile
    /\ includes(userText, ":")
    /\ includes(vault[created], userText)
    /\ includes(property(extractFrontmatter(vault[created]), "created"), ":")

\* C8: a Capture with non-empty input at timestamp T creates exactly one new
\* document, at <fleeting folder>/Fleeting-T.md, whose body contains the input;
\* a Capture with empty input creates no document.
C8_CaptureCreatesOneDocument ==
    [][op' = "createFleetingNote" =>
        LET path == settings.fleetingNotesFolder \o "/Fleeting-"
                        \o generateTimestamp(clock) \o ".md"
        IN  IF userText = "" THEN vault' = vault
            ELSE /\ path \notin DOMAIN vault
                 /\ DOMAIN vault' = DOMAIN vault \cup {path}
                 /\ includes(vault'[path], userText)
                 /\ \A p \in DOMAIN vault : vault'[p] = vault[p]]_vars

(***************************************************************************)
(* callLLM on its own: every response shape, with and without an API key   *)
(***************************************************************************)
ApiKeys == {"", "sk-test"}

InitGeneration ==
    /\ InitPlugin /\ InitSim
    /\ userText = ""
    /\ llmData \in Responses
    /\ llmOut = NoOutcome

\* one call of the generation client; the endpoint answers with llmData
Generate ==
    /\ requests < MaxRequests
    /\ llmOut' = callLLM(llmData)
    /\ requests' = IF callLLM(llmData).sent THEN requests + 1 ELSE requests
    /\ op' = "callLLM"
    /\ UNCHANGED <<settings, vault, folders, files, activeFile, clock, notice, raised,
                   created, promote, connections, userText, simA, simB, simOut,
                   llmData, timer, topics, addLink, review>>

NextGeneration == Generate \/ \E value \in ApiKeys : setApiKey(value)

SpecLLM == InitGeneration /\ [][NextGeneration]_vars

\* the call went through: a key is set and the endpoint answered with a JSON object
Answered ==
    op = "callLLM" /\ settings.apiKey # "" /\ llmData.net = "ok" /\ ~llmData.isNull

\* C9 as stated: the text at choices[0].message.content when the response has
\* it, otherwise the text at content[0].text when the response has it,
\* otherwise the empty string, and no error.
C9_FirstPresentPathWins ==
    Answered =>
        /\ llmOut.error = NoError
        /\ llmOut.text = IF choicesContent(llmData) # <<>> THEN choicesContent(llmData)[1]
                         ELSE IF contentText(llmData) # <<>> THEN contentText(llmData)[1]
                         ELSE ""

\* C9 amended: for a response body that is a JSON object, the first of the two
\* texts that is present and not empty, else the empty string, and no error;
\* for the body null, a TypeError.
C9_FirstNonEmptyPathWins ==
    /\ Answered =>
            LET first == choicesContent(llmData)
                second == contentText(llmData)
            IN  /\ llmOut.error = NoError
                /\ (first \notin {<<>>, <<"">>}) => llmOut.text = first[1]
                /\ (first \in {<<>>, <<"">>} /\ second \notin {<<>>, <<"">>})
                        => llmOut.text = second[1]
                /\ (first \in {<<>>, <<"">>} /\ second \in {<<>>, <<"">>})
                        => llmOut.text = ""
    /\ (op = "callLLM" /\ settings.apiKey # "" /\ llmData.net = "ok" /\ llmData.isNull)
            => llmOut.error = TypeError

\* both texts present, not empty and different: the first was returned
C9_Witness ==
    /\ Answered
    /\ choicesContent(llmData) = <<"hi">>
    /\ contentText(llmData) = <<"yo">>
    /\ llmOut.text = "hi"

\* C10: without an API key every call fails with the configuration error and
\* sends no request.
C10_NoKeyNoRequest ==
    [][(op' = "callLLM" /\ settings.apiKey = "") =>
            /\ llmOut'.error = ConfigurationError
            /\ requests' = requests]_vars

\* a call without a key failed after an earlier call with a key had sent a request
C10_Witness ==
    /\ op = "callLLM" /\ settings.apiKey = ""
    /\ llmOut.error = ConfigurationError
    /\ requests = 1

(***************************************************************************)
(* Connect on its own: every short active document, every threshold        *)
(***************************************************************************)
ConnectAlphabet == {"a", "b", " "}
ConnectTexts == StringsUpTo(ConnectAlphabet, MaxLen)

\* the answers of the endpoint the workflows are run against
ChatAnswer(text) ==
    [EmptyObject EXCEPT !.choices = << <<[message |-> <<[content |-> <<text>>]>>]>> >>]
WorkflowResponses ==
    {ChatAnswer("hi"), ChatAnswer(PromoteJSON), ChatAnswer(TopicsJSON), EmptyObject,
     [EmptyObject EXCEPT !.net = "fetch failed"]}

InitConnect ==
    /\ settings = [DEFAULT_SETTINGS EXCEPT !.apiKey = "sk-test"]
    /\ \E text \in ConnectTexts :
            vault = [InitialVault EXCEPT !["Inbox/n1.md"] = text]
    /\ folders = {"Permanent Notes", "Inbox"}
    /\ files \in Enumerations(Range(InitialFiles))
    /\ activeFile = "Inbox/n1.md"
    /\ clock = 0 /\ requests = 0
    /\ notice = NoNotice /\ raised = NoError /\ op = "onload" /\ created = NoFile
    /\ promote = NoPromote /\ connections = NoConnections
    /\ timer = NoTimer /\ topics = NoTopics /\ addLink = NoAddLink /\ review = NoReview
    /\ userText = ""
    /\ InitSim /\ InitLLM

NextConnect ==
    \/ \E value \in Thresholds : setConnectionThreshold(value)
    \/ \E response \in {ChatAnswer("hi"), [EmptyObject EXCEPT !.net = "fetch failed"]} :
            findConnections(response)
    \/ closeConnections

SpecConnect == InitConnect /\ [][NextConnect]_vars

NextPromote ==
    \/ Capture
    \/ \E value \in ApiKeys : setApiKey(value)
    \/ \E path \in DOMAIN vault : openFile(path)
    \/ processCurrentNoteToPermanent
    \/ promoteProcess
    \/ \E response \in WorkflowResponses : promoteResponse(response)
    \/ promoteModify
    \/ promoteCancel

InitPromote ==
    /\ InitPlugin /\ InitSim /\ InitLLM
    /\ userText = "idea about X"

SpecPromote == InitPromote /\ [][NextPromote]_vars

\* the active document has no frontmatter type fleeting
NotFleeting ==
    /\ activeFile # NoFile
    /\ property(extractFrontmatter(vault[activeFile]), "type") # "fleeting"

\* C6 as stated: Promote started on a document that is not a fleeting note
\* writes no document, sends no request, and raises PreconditionError.
C6_NotFleetingRaises ==
    [][(op' = "processCurrentNoteToPermanent" /\ NotFleeting) =>
            /\ vault' = vault /\ files' = files
            /\ requests' = requests
            /\ raised' = "PreconditionError"]_vars

\* C6 amended: Promote started on a document that is not a fleeting note
\* writes no document, sends no request and opens no dialog; it raises nothing
\* and shows the notice "Current note is not a fleeting note".
C6_NotFleetingShowsNotice ==
    [][(op' = "processCurrentNoteToPermanent" /\ NotFleeting) =>
            /\ vault' = vault /\ files' = files /\ folders' = folders
            /\ requests' = requests
            /\ promote' = promote /\ ~promote'.open
            /\ raised' = NoError
            /\ notice' = "Current note is not a fleeting note"]_vars

\* with an API key set and a fleeting note in the vault, Promote was started
\* on a note without frontmatter and showed the notice
C6_Witness ==
    /\ op = "processCurrentNoteToPermanent" /\ NotFleeting
    /\ settings.apiKey # ""
    /\ notice = "Current note is not a fleeting note"
    /\ extractFrontmatter(vault[activeFile]) = <<>>
    /\ \E p \in DOMAIN vault : property(extractFrontmatter(vault[p]), "type") = "fleeting"

\* C13: in Promote a failing step stops the handler.  Without a key no request
\* is sent; a failed generation call, a text that is not the JSON asked for
\* and a failed createNote leave the vault as it was, show the error and end
\* the run; the source is modified only after the permanent note was created.
C13_PromoteFailureAborts ==
    [][/\ (op' = "promoteProcess" /\ settings.apiKey = "") =>
            /\ vault' = vault /\ requests' = requests
            /\ promote'.flight = "idle"
            /\ notice' = "Processing failed: " \o ConfigurationError
       /\ (op' = "promoteResponse"
            /\ (llmOut'.error # NoError \/ llmOut'.text # PromoteJSON
                    \/ permanentNotePath(PromoteResult, clock) \in DOMAIN vault)) =>
            /\ vault' = vault /\ files' = files
            /\ promote'.flight = "idle"
            /\ startsWith(notice', "Processing failed: ")
            /\ llmOut'.error # NoError => notice' = "Processing failed: " \o llmOut'.error
       /\ (\E path \in DOMAIN vault : vault'[path] # vault[path]) =>
            /\ op' = "promoteModify" /\ promote.flight = "created"
            /\ \A path \in DOMAIN vault : vault'[path] # vault[path] => path = promote.file
      ]_vars

\* a second Promote of the day produced the title of the first: createNote
\* failed, the error was shown and the run ended
C13_Witness ==
    /\ op = "promoteResponse"
    /\ notice = "Processing failed: File already exists."
    /\ promote.flight = "idle"
    /\ llmOut.text = PromoteJSON

\* C15: a Promote dialog closed while its request was pending discards the
\* result: the rest of that handler creates no document and modifies none.
C15_ClosedDialogDiscardsResult ==
    [][(promote.closedPending /\ op' \in {"promoteResponse", "promoteModify"}) =>
            (vault' = vault /\ files' = files)]_vars

\* C18: the suggestions of a Connect run are in descending order of
\* similarity, whatever the order in which the vault lists the documents.
C18_SuggestionsSortedDescending ==
    (op = "findConnections" /\ raised = NoError /\ activeFile # NoFile) =>
        \A i \in 1..(Len(connections.list) - 1) :
            LET a == connections.list[i].similarity
                b == connections.list[i + 1].similarity
            IN  a.num * b.den >= b.num * a.den

\* two suggestions of different scores, the lower-scoring document listed
\* first by the vault
C18_Witness ==
    /\ op = "findConnections" /\ raised = NoError /\ activeFile # NoFile
    /\ Len(connections.list) = 2
    /\ LET a == connections.list[1].similarity
           b == connections.list[2].similarity
       IN  a.num * b.den > b.num * a.den
    /\ \E i, j \in 1..Len(files) :
            /\ i < j
            /\ fileName(files[i]) = connections.list[2].file
            /\ fileName(files[j]) = connections.list[1].file

(***************************************************************************)
(* Connect after the permanent folder setting is changed                   *)
(***************************************************************************)
PermanentFolders == {"Permanent Notes", "Inbox"}

NextFolder ==
    \/ \E value \in PermanentFolders : setPermanentNotesFolder(value)
    \/ findConnections(ChatAnswer("hi"))
    \/ closeConnections

SpecFolder == InitConnect /\ [][NextFolder]_vars

\* the documents under the configured permanent folder that score above the
\* threshold against the active document
configuredMatches ==
    {p \in DOMAIN vault :
        /\ startsWith(p, settings.permanentNotesFolder \o "/")
        /\ aboveThreshold(calculateSimilarity(vault[activeFile], vault[p]))}

\* C16: the suggestions of a Connect run are the documents under the
\* configured permanent folder that score above the threshold, and no others.
C16_ConfiguredFolderCompared ==
    (op = "findConnections" /\ raised = NoError /\ activeFile # NoFile) =>
        {connections.list[i].file : i \in 1..Len(connections.list)}
            = {fileName(p) : p \in configuredMatches}

(***************************************************************************)
(* onload's auto-process interval                                          *)
(***************************************************************************)
TickPeriod == 60000      \* milliseconds

AutoProcessTypeError == "this.autoProcessFleetingNotes is not a function"

\* if (this.settings.autoProcess) registerInterval(setInterval(..., 60000))
registeredTimer(loaded) ==
    IF loaded.autoProcess THEN [registered |-> TRUE, period |-> TickPeriod]
    ELSE NoTimer

\* the plugin is loaded with the settings saved by an earlier session
InitAuto ==
    /\ \E flag \in BOOLEAN :
            /\ settings = [DEFAULT_SETTINGS EXCEPT !.autoProcess = flag]
            /\ timer = registeredTimer(settings)
    /\ vault = InitialVault
    /\ folders = {"Permanent Notes", "Inbox"}
    /\ files = InitialFiles
    /\ activeFile = NoFile
    /\ clock = 0 /\ requests = 0
    /\ notice = NoNotice /\ raised = NoError /\ op = "onload" /\ created = NoFile
    /\ promote = NoPromote /\ connections = NoConnections
    /\ topics = NoTopics /\ addLink = NoAddLink /\ review = NoReview
    /\ userText \in InputTexts
    /\ InitSim /\ InitLLM

\* the interval's callback: () => this.autoProcessFleetingNotes(), a method
\* the plugin does not define
autoProcessTick ==
    /\ timer.registered
    /\ op' = "autoProcessTick"
    /\ raised' = AutoProcessTypeError
    /\ UNCHANGED <<settings, vault, folders, files, activeFile, clock, requests, notice,
                   created, promote, connections, userText, simA, simB, simOut,
                   llmData, llmOut, timer, topics, addLink, review>>

NextAuto ==
    \/ \E value \in BOOLEAN : setAutoProcess(value)
    \/ autoProcessTick
    \/ Capture
    \/ Tick

SpecAuto == InitAuto /\ [][NextAuto]_vars

\* C17: a tick of the auto-process timer runs only while the autoProcess
\* flag is set, and the timer's period is 60 seconds.
C17_TickOnlyWhileEnabled ==
    op = "autoProcessTick" => (settings.autoProcess /\ timer.period = 60000)

(***************************************************************************)
(* The life of a fleeting note: Capture, Promote, Connect and Add Link,    *)
(* interleaved                                                             *)
(***************************************************************************)
\* a session in which the API key is set, the threshold slider is at its
\* lowest, and one fleeting note has been captured and is the active file
CapturedNote == fleetingNotePath(0)
InitLifecycle ==
    /\ settings = [DEFAULT_SETTINGS EXCEPT !.apiKey = "sk-test",
                                           !.connectionThreshold = 1]
    /\ vault = [p \in DOMAIN InitialVault \cup {CapturedNote} |->
                    IF p = CapturedNote THEN fleetingNoteContent("a b", 0)
                    ELSE InitialVault[p]]
    /\ folders = {"Permanent Notes", "Inbox", "Fleeting Notes"}
    /\ files = Append(InitialFiles, CapturedNote)
    /\ activeFile = CapturedNote
    /\ clock = 0 /\ requests = 0
    /\ notice = "Fleeting note created!" /\ raised = NoError
    /\ op = "createFleetingNote" /\ created = CapturedNote
    /\ promote = NoPromote /\ connections = NoConnections
    /\ timer = NoTimer /\ topics = NoTopics /\ addLink = NoAddLink
    /\ review = NoReview
    /\ userText = "a b"
    /\ InitSim /\ InitLLM

\* the documents the user switches between
LifecycleFiles == {CapturedNote, "Permanent Notes/p1.md"}

NextLifecycle ==
    \/ \E path \in LifecycleFiles : openFile(path)
    \/ processCurrentNoteToPermanent
    \/ promoteProcess
    \/ promoteResponse(ChatAnswer(PromoteJSON))
    \/ promoteModify
    \/ promoteCancel
    \/ findConnections(ChatAnswer("hi"))
    \/ \E i \in 1..Len(connections.list) : addLinkRead(i)
    \/ addLinkWrite
    \/ closeConnections

SpecLifecycle == InitLifecycle /\ [][NextLifecycle]_vars

\* the states of a fleeting note: its body holds the placeholder comment, or
\* a back-reference in its place
isCreated(content) == includes(content, Placeholder)
isProcessed(content) ==
    includes(content, "<!-- Processed to: [[") /\ ~includes(content, Placeholder)

\* C21: Add Link appends the link block to the document the Connect run
\* read, and leaves the rest of that document and every other one unchanged.
C21_LinkGoesToDocumentRead ==
    [][op' = "addLinkWrite" =>
            vault' = [vault EXCEPT ![connections.readFrom] =
                            vault[connections.readFrom] \o addLink.link]]_vars

\* the heading of the block Add Link appends
hasLinkBlock(content) == includes(content, "\n\n## Related\n- [[")

\* C22: Promote and Add Link on one document are not mutually exclusive and
\* each writes back what it read before the other's write: the later write
\* drops the other's update (the link block, or the back-reference).
C22_LaterWriteDropsEarlierUpdate ==
    [][/\ (/\ op' = "promoteModify"
           /\ hasLinkBlock(vault[promote.file])
           /\ ~hasLinkBlock(promote.content))
                => ~hasLinkBlock(vault'[promote.file])
       /\ (/\ op' = "addLinkWrite"
           /\ isProcessed(vault[addLink.file])
           /\ isCreated(addLink.content))
                => (/\ isCreated(vault'[addLink.file])
                    /\ ~isProcessed(vault'[addLink.file])
                    /\ hasLinkBlock(vault'[addLink.file]))]_vars

\* a Promote of the captured note has run to its end and an Add Link on the
\* same note has written after it: the note holds the link block, and the
\* placeholder again instead of the back-reference
C22_Witness ==
    /\ op = "addLinkWrite"
    /\ promote.file = CapturedNote /\ promote.flight = "idle"
    /\ notice = "Added link to p1.md"
    /\ \E path \in DOMAIN vault : includes(vault[path], "Processed from: [[")
    /\ hasLinkBlock(vault[CapturedNote])
    /\ isCreated(vault[CapturedNote])
    /\ ~isProcessed(vault[CapturedNote])

\* C14: a fleeting note becomes processed only through a Promote, and once
\* processed it is never in the created state again.
C14_FleetingLifecycleOneWay ==
    [][\A path \in DOMAIN vault :
            /\ (isCreated(vault[path]) /\ isProcessed(vault'[path]))
                    => op' = "promoteModify"
            /\ isProcessed(vault[path]) => ~isCreated(vault'[path])]_vars

(***************************************************************************)
(* The automated workflows: Capture, Promote, Structure, Writing topics    *)
(* and Daily review, interleaved                                           *)
(***************************************************************************)
StructureTopics == {"", "ML"}
TopicsResponses == {ChatAnswer(TopicsJSON), ChatAnswer(PromoteJSON),
                    [EmptyObject EXCEPT !.net = "fetch failed"]}

\* no dialog of the plugin is open and no handler is waiting: the user starts
\* the next run
Quiet ==
    /\ ~promote.open /\ ~connections.open /\ ~topics.open /\ ~review.open
    /\ promote.flight = "idle" /\ addLink.stage = "idle"

\* the permanent notes in the order the vault lists them
listedPermanentNotes ==
    SelectSeq(files, LAMBDA file : startsWith(file, "Permanent Notes/"))

\* One run after the other: a command is started when the run before is over.
NextWorkflows ==
    \/ Quiet /\ Capture
    \/ Quiet /\ setApiKey("sk-test")
    \/ Quiet /\ \E path \in DOMAIN vault : openFile(path)
    \/ Quiet /\ processCurrentNoteToPermanent
    \/ promoteProcess
    \/ \E response \in {ChatAnswer(PromoteJSON), ChatAnswer("hi")} :
            promoteResponse(response)
    \/ promoteModify
    \/ promoteCancel
    \/ Quiet /\ \E topic \in StructureTopics, selectedNotes \in {{}, structureChoices},
          response \in {ChatAnswer("hi"), [EmptyObject EXCEPT !.net = "fetch failed"]} :
            structureCreate(topic, selectedNotes, response)
    \/ Quiet /\ \E response \in TopicsResponses : suggestWritingTopics(response)
    \/ \E i \in 1..Len(topics.list) : startWriting(i)
    \/ \E i \in 1..Len(topics.list) : generateOutline(i)
    \/ closeTopics
    \/ Quiet /\ dailyReview(listedPermanentNotes)
    \/ closeReview("Daily review completed!")

InitWorkflows ==
    /\ InitPlugin /\ InitSim /\ InitLLM
    /\ userText = "idea about X"

SpecWorkflows == InitWorkflows /\ [][NextWorkflows]_vars

\* C11: a Structure run with a topic, a selection and a generation call that
\* succeeded creates a new document whose content is the generated text.
C11_StructurePersisted ==
    [][(op' = "structureCreate" /\ llmOut'.error = NoError
            /\ startsWith(notice', "Created structure note for: ")) =>
        \E path \in DOMAIN vault' \ DOMAIN vault : vault'[path] = llmOut'.text]_vars

\* C12: no error of a workflow step escapes its handler: whatever ran last
\* threw nothing (an error was caught and shown as a notice).
C12_NoErrorEscapes == raised = NoError

\* a permanent document: one under the permanent folder, or one whose
\* front matter says so
permanentDocument(path) ==
    \/ startsWith(path, settings.permanentNotesFolder \o "/")
    \/ startsWith(vault[path], "---\ntype: permanent\n")

\* C20: no step of Capture, Promote, Structure, Writing-Topics or Daily-Review
\* removes a document or changes the content of an existing permanent one.
C20_PermanentNotesUntouched ==
    [][\A path \in DOMAIN vault :
            /\ path \in DOMAIN vault'
            /\ permanentDocument(path) => vault'[path] = vault[path]]_vars

\* a Promote has run to its end: the permanent note it created is in the
\* vault beside the ones that were there, and the fleeting note was modified
C20_Witness ==
    /\ op = "promoteModify"
    /\ \E path \in DOMAIN vault :
            /\ permanentDocument(path)
            /\ includes(vault[path], "Processed from: [[")
    /\ \E path \in DOMAIN vault : isProcessed(vault[path])
    /\ \A path \in DOMAIN InitialVault :
            path \in DOMAIN vault /\ vault[path] = InitialVault[path]

(***************************************************************************)
(* Writing topics over a vault of many permanent notes                     *)
(***************************************************************************)
MaxNotes == 52

\* the path of the k-th permanent note of the vault, k below 100
permanentNotePathOf(k) ==
    "Permanent Notes/n" \o charAt(Digits, (k \div 10) + 1)
    \o charAt(Digits, (k % 10) + 1) \o ".md"

\* a session in which the API key is set and the vault holds n permanent notes
InitTopics ==
    /\ \E n \in 0..MaxNotes :
            /\ files = [k \in 1..n |-> permanentNotePathOf(k)]
            /\ vault = [p \in {permanentNotePathOf(k) : k \in 1..n} |-> "a"]
    /\ settings = [DEFAULT_SETTINGS EXCEPT !.apiKey = "sk-test"]
    /\ folders = {"Permanent Notes"}
    /\ activeFile = NoFile
    /\ clock = 0 /\ requests = 0
    /\ notice = NoNotice /\ raised = NoError /\ op = "onload" /\ created = NoFile
    /\ promote = NoPromote /\ connections = NoConnections
    /\ timer = NoTimer /\ topics = NoTopics /\ addLink = NoAddLink
    /\ review = NoReview
    /\ userText = ""
    /\ InitSim /\ InitLLM

NextTopics ==
    \/ \E response \in TopicsResponses : (~topics.open /\ suggestWritingTopics(response))
    \/ \E i \in 1..Len(topics.list) : startWriting(i)
    \/ \E i \in 1..Len(topics.list) : generateOutline(i)
    \/ closeTopics

SpecTopics == InitTopics /\ [][NextTopics]_vars

\* C19: one run of Writing-Topics reads at most 50 permanent documents and
\* embeds the bodies of at most 50 in its prompt.
C19_AtMostFiftyRead ==
    op = "suggestWritingTopics" => (topics.reads <= 50 /\ topics.embedded <= 50)

(***************************************************************************)
(* The plugin: the workflows of one session, interleaved                   *)
(***************************************************************************)
Init ==
    /\ InitPlugin /\ InitSim /\ InitLLM
    /\ userText = "idea about X"

Next ==
    \/ Capture
    \/ \E value \in ApiKeys : setApiKey(value)
    \/ \E value \in {3, 7} : setConnectionThreshold(value)
    \/ \E path \in DOMAIN vault : openFile(path)
    \/ findConnections(ChatAnswer("hi"))
    \/ closeConnections
    \/ processCurrentNoteToPermanent
    \/ promoteProcess
    \/ \E response \in WorkflowResponses : promoteResponse(response)
    \/ promoteModify
    \/ promoteCancel

Spec == Init /\ [][Next]_vars

====
